---------------------------- MODULE Spec2Model ----------------------------
(***************************************************************************)
(* Model of src/src/cl_get_device_info.cpp: the MEX entry point            *)
(* mexFunction, which enumerates the OpenCL devices, validates its single   *)
(* argument (a cell array of character arrays), resolves every requested    *)
(* property name through the chain of strcmp tests, queries each device and *)
(* stores the marshalled answer in a num_props-by-devs.size() cell matrix.  *)
(*                                                                         *)
(* One call of mexFunction is one behaviour.  The steps of the call are    *)
(* separate actions because the properties of interest are about the order *)
(* of backend calls, error exits and the assignment of the output.         *)
(* Text values are sequences of one-character strings.                     *)
(***************************************************************************)
EXTENDS Integers, Sequences, FiniteSets, TLC

VARIABLES
    prhs,            \* the call's right-hand side: absent, a non-cell, or a cell array
    directory,       \* the devices the OpenCL backend exposes, in platform order
    pc,              \* position in mexFunction
    devs,            \* std::vector<cl::Device> devs (line 45)
    num_props,       \* const mwSize num_props (line 56)
    prop_type,       \* char prop_type (line 75), lives across loop iterations
    prop_num,        \* cl_device_info prop_num (line 74), lives across iterations
    cell_array_ptr,  \* the cell matrix under construction (line 78)
    i,               \* device loop index (line 82)
    j,               \* property loop index (line 83)
    plhs,            \* plhs[0], the value handed back to the caller (line 197)
    err,             \* identifier of the error that ended the call
    calls,           \* history of calls made to the OpenCL backend
    writes           \* history: number of mxSetCell calls per linear index

vars == <<prhs, directory, pc, devs, num_props, prop_type, prop_num,
          cell_array_ptr, i, j, plhs, err, calls, writes>>

---------------------------------------------------------------------------
(* Bounds of the model *)

MaxProps == 2

MaxDevs == 2

---------------------------------------------------------------------------
(* Property type tags, lines 13-21 *)

PTYPE_BOOL == 1

PTYPE_CHAR == 2

PTYPE_UINT == 3

PTYPE_ULNG == 4

PTYPE_SIZT == 5

PTYPE_SZTA == 6

PTYPE_PLFM_AsChar == PTYPE_CHAR

PTYPE_PLFM == 0

PTYPE_DEVC == 8

(* cl_device_type bits of CL/cl.h, compared against on lines 173-177 *)

CL_DEVICE_TYPE_DEFAULT == 1

CL_DEVICE_TYPE_CPU == 2

CL_DEVICE_TYPE_GPU == 4

CL_DEVICE_TYPE_ACCELERATOR == 8

CL_DEVICE_TYPE_CUSTOM == 16

(* std::string::size_type arithmetic is modular.  The modulus stands for   *)
(* 2^64; any modulus larger than every string length gives the same        *)
(* comparison results, and 2^30 is inside TLC's integer range.             *)
SizeModulus == 2^30

---------------------------------------------------------------------------
(* The chain of strcmp tests, lines 89-128, in source order.  A query key  *)
(* (cl_device_info constant) is identified by its name.                    *)

Entry(n, t) == [name |-> n, type |-> t, num |-> n]

NameTable == <<
    Entry("CL_DEVICE_ADDRESS_BITS", PTYPE_UINT),
    Entry("CL_DEVICE_AVAILABLE", PTYPE_BOOL),
    Entry("CL_DEVICE_BUILT_IN_KERNELS", PTYPE_CHAR),
    Entry("CL_DEVICE_COMPILER_AVAILABLE", PTYPE_BOOL),
    Entry("CL_DEVICE_EXTENSIONS", PTYPE_CHAR),
    Entry("CL_DEVICE_GLOBAL_MEM_CACHE_SIZE", PTYPE_ULNG),
    Entry("CL_DEVICE_GLOBAL_MEM_CACHELINE_SIZE", PTYPE_UINT),
    Entry("CL_DEVICE_GLOBAL_MEM_SIZE", PTYPE_ULNG),
    Entry("CL_DEVICE_LINKER_AVAILABLE", PTYPE_BOOL),
    Entry("CL_DEVICE_LOCAL_MEM_SIZE", PTYPE_ULNG),
    Entry("CL_DEVICE_MAX_CLOCK_FREQUENCY", PTYPE_UINT),
    Entry("CL_DEVICE_MAX_COMPUTE_UNITS", PTYPE_UINT),
    Entry("CL_DEVICE_MAX_CONSTANT_ARGS", PTYPE_UINT),
    Entry("CL_DEVICE_MAX_CONSTANT_BUFFER_SIZE", PTYPE_ULNG),
    Entry("CL_DEVICE_MAX_MEM_ALLOC_SIZE", PTYPE_ULNG),
    Entry("CL_DEVICE_MAX_PARAMETER_SIZE", PTYPE_ULNG),
    Entry("CL_DEVICE_MAX_WORK_GROUP_SIZE", PTYPE_SIZT),
    Entry("CL_DEVICE_MAX_WORK_ITEM_DIMENSIONS", PTYPE_UINT),
    Entry("CL_DEVICE_MAX_WORK_ITEM_SIZES", PTYPE_SZTA),
    Entry("CL_DEVICE_OPENCL_C_VERSION", PTYPE_CHAR),
    Entry("CL_DEVICE_MAX_PARAMETER_SIZE", PTYPE_ULNG),
    Entry("CL_DEVICE_NAME", PTYPE_CHAR),
    Entry("CL_DEVICE_PREFERRED_VECTOR_WIDTH_CHAR", PTYPE_UINT),
    Entry("CL_DEVICE_PREFERRED_VECTOR_WIDTH_SHORT", PTYPE_UINT),
    Entry("CL_DEVICE_PREFERRED_VECTOR_WIDTH_INT", PTYPE_UINT),
    Entry("CL_DEVICE_PREFERRED_VECTOR_WIDTH_LONG", PTYPE_UINT),
    Entry("CL_DEVICE_PREFERRED_VECTOR_WIDTH_FLOAT", PTYPE_UINT),
    Entry("CL_DEVICE_PREFERRED_VECTOR_WIDTH_DOUBLE", PTYPE_UINT),
    Entry("CL_DEVICE_PREFERRED_VECTOR_WIDTH_HALF", PTYPE_UINT),
    Entry("CL_DEVICE_PRINTF_BUFFER_SIZE", PTYPE_SIZT),
    Entry("CL_DEVICE_PROFILE", PTYPE_CHAR),
    Entry("CL_DEVICE_PROFILING_TIMER_RESOLUTION", PTYPE_SIZT),
    Entry("CL_DEVICE_VENDOR", PTYPE_CHAR),
    Entry("CL_DEVICE_VENDOR_ID", PTYPE_UINT),
    Entry("CL_DEVICE_VERSION", PTYPE_CHAR),
    Entry("CL_DRIVER_VERSION", PTYPE_CHAR),
    Entry("CL_DEVICE_PLATFORM", PTYPE_PLFM),
    Entry("CL_DEVICE_TYPE", PTYPE_DEVC) >>

(* prop_type = 0 at the head of every iteration, line 88 *)
PropTypeCarry(prev_type) == prev_type

PropTypeInit(prev_type) == 0

(* The ifs are independent (no else): every one is evaluated, a later     *)
(* match overwrites an earlier one, and with no match prop_type and        *)
(* prop_num keep the values they had on entry.                             *)
RECURSIVE ScanTable(_, _, _)
ScanTable(prop_name, k, acc) ==
    IF k > Len(NameTable) THEN acc
    ELSE ScanTable(prop_name, k + 1,
                   IF NameTable[k].name = prop_name
                   THEN [type |-> NameTable[k].type, num |-> NameTable[k].num]
                   ELSE acc)

Resolve(prop_name, prev_type, prev_num) ==
    ScanTable(prop_name, 1, [type |-> PropTypeInit(prev_type), num |-> prev_num])


---------------------------------------------------------------------------
(* The OpenCL backend.  A device is its answers to the queries: the        *)
(* cl_device_type bitfield, the work-item size vector (whose length the    *)
(* backend decides), its name and a compute-unit count.                    *)

Txt_MockGPU == <<"M", "o", "c", "k", "G", "P", "U">>

Txt_mockCpu == <<"m", "o", "c", "k", " ", "C", "p", "u">>

WorkItemSizes == <<8, 4, 2>>

Device(mask) ==
    [type  |-> mask,
     sizes |-> SubSeq(WorkItemSizes, 1, (mask \div 2) % (Len(WorkItemSizes) + 1)),
     name  |-> IF mask % 4 = 2 THEN Txt_mockCpu ELSE Txt_MockGPU,
     units |-> mask + 1]

(* All combinations of the five category bits *)
TypeMasks == 0 .. (2^5 - 1)

(* The device kinds that occur in directories of more than one device *)
CommonMasks == {CL_DEVICE_TYPE_CPU, CL_DEVICE_TYPE_GPU,
                CL_DEVICE_TYPE_CPU + CL_DEVICE_TYPE_GPU}

SeqsUpTo(S, n) == UNION {[1 .. k -> S] : k \in 0 .. n}

Directories ==
    SeqsUpTo({Device(m) : m \in CommonMasks}, MaxDevs)
        \cup {<<Device(m)>> : m \in TypeMasks}

(* What clGetDeviceInfo answers for a query key on a device *)
(* read into a buffer of the type the switch case passes                   *)
DeviceInfo(dev, key, type) ==
    CASE key = "CL_DEVICE_TYPE" -> dev.type
      [] key = "CL_DEVICE_MAX_WORK_ITEM_SIZES" -> dev.sizes
      [] type = PTYPE_CHAR -> dev.name
      [] OTHER -> dev.units

(* getOclDevices, lines 24-38: the devices of every platform, platform by  *)
(* platform, appended in the order the backend lists them.                 *)
getOclDevices(dir) == dir

---------------------------------------------------------------------------
(* The argument of the call *)

CharArray(s) == [class |-> "char", str |-> s]

NonChar == [class |-> "double", str |-> ""]

RequestNames == {"CL_DEVICE_NAME", "CL_DEVICE_TYPE", "CL_DEVICE_PLATFORM",
                 "CL_DEVICE_MAX_WORK_ITEM_SIZES", "CL_DEVICE_MAX_COMPUTE_UNITS",
                 "cl_device_name"}

CellElements == {CharArray(s) : s \in RequestNames} \cup {NonChar}

Absent == [nrhs |-> 0, class |-> "none", elems |-> <<>>]

NonCell == [nrhs |-> 1, class |-> "double", elems |-> <<>>]

CellArray(es) == [nrhs |-> 1, class |-> "cell", elems |-> es]

Arguments ==
    {Absent, NonCell} \cup {CellArray(es) : es \in SeqsUpTo(CellElements, MaxProps)}

mxIsCell(a) == a.class = "cell"

mxIsChar(a) == a.class = "char"

(* mxGetNumberOfElements(prhs[0]), line 56 *)
NumPropsDedup(a) == Cardinality({a.elems[k] : k \in 1 .. Len(a.elems)})

mxGetNumberOfElements(a) == Len(a.elems)

(* mxArrayToString(mxGetCell(prhs[0], j)), line 84; j counts from 0 *)
PropName(a, jj) == a.elems[jj + 1].str

(* The validation loop, lines 60-63: chars_in = chars_in && mxIsChar(...) *)
RECURSIVE CharsInFrom(_, _, _, _)
CharsInFrom(a, jj, n, chars_in) ==
    IF jj >= n THEN chars_in
    ELSE CharsInFrom(a, jj + 1, n, chars_in /\ mxIsChar(a.elems[jj + 1]))

(* the loop of lines 60-63 with "chars_in =" in place of "chars_in = chars_in &&" *)
CharsInLastOnly(a, n) == IF n = 0 THEN TRUE ELSE mxIsChar(a.elems[n])

CharsIn(a, n) == CharsInFrom(a, 0, n, TRUE)

---------------------------------------------------------------------------
(* MATLAB values *)

NullCell == [class |-> "null", dims |-> <<0, 0>>, val |-> <<>>]

(* mxCreateNumericMatrix(0,0,mxDOUBLE_CLASS,mxREAL), line 184 *)
EmptyDouble == [class |-> "double", dims |-> <<0, 0>>, val |-> <<>>]

Scalar(cls, v) == [class |-> cls, dims |-> <<1, 1>>, val |-> <<v>>]

(* mxCreateString(txt.c_str()), lines 167 and 179 *)
mxCreateString(txt) == [class |-> "char", dims |-> <<1, Len(txt)>>, val |-> txt]

(* mxCreateCellMatrix(m, n), line 78: every cell starts out null *)
CreateCellMatrixSwapped(m, n) ==
    [rows |-> n, cols |-> m, cells |-> [k \in 0 .. (m * n - 1) |-> NullCell]]

mxCreateCellMatrix(m, n) ==
    [rows |-> m, cols |-> n, cells |-> [k \in 0 .. (m * n - 1) |-> NullCell]]

NoGrid == [rows |-> -1, cols |-> -1, cells |-> <<>>]

(* The linear index of mxSetCell, line 191 *)
CellIndexDeviceFastest(jj, ii, np, nd) == ii + jj * nd

CellIndex(jj, ii, np, nd) == jj + ii * np

(* case PTYPE_SZTA, lines 158-162: a 1-by-tmp_size.size() matrix, filled   *)
(* element by element.                                                     *)
SztaLengthFixed(tmp_size) == Len(WorkItemSizes)

SztaLength(tmp_size) == Len(tmp_size)

SztaMatrix(tmp_size) ==
    LET n == SztaLength(tmp_size)
    IN  [class |-> "uint64", dims |-> <<1, n>>,
         val |-> [k \in 1 .. n |-> IF k <= Len(tmp_size) THEN tmp_size[k] ELSE 0]]

(* case PTYPE_DEVC, lines 170-179 *)
Label_cpu == <<"c", "p", "u">>

Label_gpu == <<"g", "p", "u">>

Label_accelerator == <<"a", "c", "c", "e", "l", "e", "r", "a", "t", "o", "r">>

Label_default == <<"d", "e", "f", "a", "u", "l", "t">>

Label_custom == <<"c", "u", "s", "t", "o", "m">>

Separator == <<" ", "|", " ">>

(* lines 172-177: each test compares the whole bitfield with one constant *)
DeviceTypeText(id) ==
    LET t0 == <<>>
        t1 == IF id = CL_DEVICE_TYPE_CPU THEN t0 \o Label_cpu \o Separator ELSE t0
        t2 == IF id = CL_DEVICE_TYPE_GPU THEN t1 \o Label_gpu \o Separator ELSE t1
        t3 == IF id = CL_DEVICE_TYPE_ACCELERATOR
              THEN t2 \o Label_accelerator \o Separator ELSE t2
        t4 == IF id = CL_DEVICE_TYPE_DEFAULT
              THEN t3 \o Label_default \o Separator ELSE t3
        t5 == IF id = CL_DEVICE_TYPE_CUSTOM
              THEN t4 \o Label_custom \o Separator ELSE t4
    IN  t5

(* line 178: txt.erase(txt.length() - 3).  The position is an unsigned     *)
(* difference; std::string::erase throws std::out_of_range when the        *)
(* position is past the end of the string.                                 *)
ErasePos(txt) == (Len(txt) - Len(Separator)) % SizeModulus

EraseThrows(txt) == ErasePos(txt) > Len(txt)

Erase(txt) == SubSeq(txt, 1, ErasePos(txt))

(* The value for a resolved type and the backend answer, lines 139-186 *)
Marshal(type, raw) ==
    CASE type = PTYPE_ULNG -> Scalar("uint64", raw)
      [] type = PTYPE_SIZT -> Scalar("uint64", raw)
      [] type = PTYPE_UINT -> Scalar("uint32", raw)
      [] type = PTYPE_BOOL -> Scalar("logical", raw # 0)
      [] type = PTYPE_SZTA -> SztaMatrix(raw)
      [] type = PTYPE_CHAR -> mxCreateString(raw)
      [] type = PTYPE_DEVC -> mxCreateString(Erase(DeviceTypeText(raw)))
      [] OTHER -> EmptyDouble

(* The cases of the switch that call getInfo *)
QueriedTypes == {PTYPE_ULNG, PTYPE_SIZT, PTYPE_UINT, PTYPE_BOOL, PTYPE_SZTA,
                 PTYPE_CHAR, PTYPE_DEVC}


---------------------------------------------------------------------------
(* The call *)

NonCellInput == "MatCL:cl_get_device_info:NonCellInput"

NonCharInput == "MatCL:cl_get_device_info:NonCharInput"

BackendError == "cl::Error"

OutOfRange == "std::out_of_range"

EnumerateCall == [op |-> "enumerate", cell |-> -1, key |-> "", ok |-> TRUE]

GetInfoCall(idx, key, ok) == [op |-> "getInfo", cell |-> idx, key |-> key, ok |-> ok]

Init ==
    /\ prhs \in Arguments
    /\ directory \in Directories
    /\ pc = "enumerate"
    /\ devs = <<>>
    /\ num_props = 0
    /\ prop_type = 0
    /\ prop_num = "uninitialized"
    /\ cell_array_ptr = NoGrid
    /\ i = 0
    /\ j = 0
    /\ plhs = NoGrid
    /\ err = "none"
    /\ calls = <<>>
    /\ writes = <<>>

(* line 45: the devices are enumerated first *)
Enumerate ==
    /\ pc = "enumerate"
    /\ devs' = getOclDevices(directory)
    /\ calls' = Append(calls, EnumerateCall)
    /\ pc' = "check_cell"
    /\ UNCHANGED <<prhs, directory, num_props, prop_type, prop_num,
                   cell_array_ptr, i, j, plhs, err, writes>>

(* lines 48-53 *)
RejectNonCell ==
    /\ pc = "check_cell"
    /\ (prhs.nrhs < 1 \/ ~mxIsCell(prhs))
    /\ err' = NonCellInput
    /\ pc' = "error"
    /\ UNCHANGED <<prhs, directory, devs, num_props, prop_type, prop_num,
                   cell_array_ptr, i, j, plhs, calls, writes>>

(* lines 48 and 56 *)
AcceptCell ==
    /\ pc = "check_cell"
    /\ ~(prhs.nrhs < 1 \/ ~mxIsCell(prhs))
    /\ num_props' = mxGetNumberOfElements(prhs)
    /\ pc' = "check_chars"
    /\ UNCHANGED <<prhs, directory, devs, prop_type, prop_num,
                   cell_array_ptr, i, j, plhs, err, calls, writes>>

(* lines 59-69 *)
RejectNonChar ==
    /\ pc = "check_chars"
    /\ ~CharsIn(prhs, num_props)
    /\ err' = NonCharInput
    /\ pc' = "error"
    /\ UNCHANGED <<prhs, directory, devs, num_props, prop_type, prop_num,
                   cell_array_ptr, i, j, plhs, calls, writes>>

(* The loop heads of lines 82-83: the position after cell (ii, jj), or the *)
(* first position when called with jj = -1.                                *)
LoopNext(ii, jj, np, nd) ==
    IF ii < nd /\ jj + 1 < np THEN [pc |-> "loop", i |-> ii, j |-> jj + 1]
    ELSE IF ii + 1 < nd /\ 0 < np THEN [pc |-> "loop", i |-> ii + 1, j |-> 0]
    ELSE [pc |-> "output", i |-> nd, j |-> jj + 1]

(* lines 59-64 passed, then lines 74-83: allocate and enter the loops *)
Allocate ==
    /\ pc = "check_chars"
    /\ CharsIn(prhs, num_props)
    /\ cell_array_ptr' = mxCreateCellMatrix(num_props, Len(devs))
    /\ writes' = [k \in 0 .. (num_props * Len(devs) - 1) |-> 0]
    /\ prop_type' = 0
    /\ LET n == LoopNext(0, -1, num_props, Len(devs))
       IN  pc' = n.pc /\ i' = n.i /\ j' = n.j
    /\ UNCHANGED <<prhs, directory, devs, num_props, prop_num, plhs, err, calls>>

(* line 191 and the loop increments *)
StoreCell(value) ==
    LET idx == CellIndex(j, i, num_props, Len(devs))
        n   == LoopNext(i, j, num_props, Len(devs))
    IN  /\ cell_array_ptr' = [cell_array_ptr EXCEPT !.cells[idx] = value]
        /\ writes' = [writes EXCEPT ![idx] = @ + 1]
        /\ pc' = n.pc /\ i' = n.i /\ j' = n.j

(* lines 84-128, then the default case of the switch, lines 181-185 *)
StoreEmpty ==
    /\ pc = "loop"
    /\ LET r == Resolve(PropName(prhs, j), prop_type, prop_num)
       IN  /\ r.type \notin QueriedTypes
           /\ prop_type' = r.type
           /\ prop_num' = r.num
           /\ StoreCell(Marshal(r.type, 0))
    /\ UNCHANGED <<prhs, directory, devs, num_props, plhs, err, calls>>

(* lines 84-128, then a querying case of the switch whose getInfo succeeds *)
QueryAndStore ==
    /\ pc = "loop"
    /\ LET r   == Resolve(PropName(prhs, j), prop_type, prop_num)
           raw == DeviceInfo(devs[i + 1], r.num, r.type)
       IN  /\ r.type \in QueriedTypes
           /\ ~(r.type = PTYPE_DEVC /\ EraseThrows(DeviceTypeText(raw)))
           /\ prop_type' = r.type
           /\ prop_num' = r.num
           /\ calls' = Append(calls,
                  GetInfoCall(CellIndex(j, i, num_props, Len(devs)), r.num, TRUE))
           /\ StoreCell(Marshal(r.type, raw))
    /\ UNCHANGED <<prhs, directory, devs, num_props, plhs, err>>

(* case PTYPE_DEVC, line 178: erase throws and the exception leaves        *)
(* mexFunction                                                             *)
DecodeThrows ==
    /\ pc = "loop"
    /\ LET r   == Resolve(PropName(prhs, j), prop_type, prop_num)
           raw == DeviceInfo(devs[i + 1], r.num, r.type)
       IN  /\ r.type = PTYPE_DEVC
           /\ EraseThrows(DeviceTypeText(raw))
           /\ prop_type' = r.type
           /\ prop_num' = r.num
           /\ calls' = Append(calls,
                  GetInfoCall(CellIndex(j, i, num_props, Len(devs)), r.num, TRUE))
    /\ err' = OutOfRange
    /\ pc' = "error"
    /\ UNCHANGED <<prhs, directory, devs, num_props, cell_array_ptr, i, j,
                   plhs, writes>>

(* A getInfo call the backend rejects: the OpenCL C++ binding is built     *)
(* with exceptions enabled, so the failure leaves mexFunction as cl::Error *)
QueryFails ==
    /\ pc = "loop"
    /\ LET r == Resolve(PropName(prhs, j), prop_type, prop_num)
       IN  /\ r.type \in QueriedTypes
           /\ prop_type' = r.type
           /\ prop_num' = r.num
           /\ calls' = Append(calls,
                  GetInfoCall(CellIndex(j, i, num_props, Len(devs)), r.num, FALSE))
    /\ err' = BackendError
    /\ pc' = "error"
    /\ UNCHANGED <<prhs, directory, devs, num_props, cell_array_ptr, i, j,
                   plhs, writes>>

(* line 197, placed inside the loops *)
SetOutputEarly ==
    /\ pc \in {"loop", "output"}
    /\ plhs' = cell_array_ptr
    /\ pc' = IF pc = "output" THEN "done" ELSE pc
    /\ UNCHANGED <<prhs, directory, devs, num_props, prop_type, prop_num,
                   cell_array_ptr, i, j, err, calls, writes>>

(* lines 197-201 *)
SetOutput ==
    /\ pc = "output"
    /\ plhs' = cell_array_ptr
    /\ pc' = "done"
    /\ UNCHANGED <<prhs, directory, devs, num_props, prop_type, prop_num,
                   cell_array_ptr, i, j, err, calls, writes>>

Next ==
    \/ Enumerate
    \/ RejectNonCell
    \/ AcceptCell
    \/ RejectNonChar
    \/ Allocate
    \/ StoreEmpty
    \/ QueryAndStore
    \/ DecodeThrows
    \/ QueryFails
    \/ SetOutput

Spec == Init /\ [][Next]_vars

---------------------------------------------------------------------------
(* Vocabulary of the properties.  These definitions state what is          *)
(* expected; none of them is used by the actions above.                    *)

P == Len(prhs.elems)

D == Len(directory)

NameAt(jj) == prhs.elems[jj + 1].str

(* the position j + i*P read backwards *)
RowOf(slot) == slot % P

ColOf(slot) == slot \div P

Recognized(name) == \E k \in 1 .. Len(NameTable) : NameTable[k].name = name

CellEq(a, b) == a.class = b.class /\ a.dims = b.dims /\ a.val = b.val

HasBit(mask, bit) == (mask \div bit) % 2 = 1

RECURSIVE JoinLabels(_)
JoinLabels(labels) ==
    IF labels = <<>> THEN <<>>
    ELSE IF Len(labels) = 1 THEN Head(labels)
    ELSE Head(labels) \o Separator \o JoinLabels(Tail(labels))

(* the labels of the set bits in the order cpu, gpu, accelerator, default, *)
(* custom, joined by " | "                                                 *)
ClassLabels(mask) ==
    JoinLabels(
        (IF HasBit(mask, CL_DEVICE_TYPE_CPU) THEN <<Label_cpu>> ELSE <<>>)
        \o (IF HasBit(mask, CL_DEVICE_TYPE_GPU) THEN <<Label_gpu>> ELSE <<>>)
        \o (IF HasBit(mask, CL_DEVICE_TYPE_ACCELERATOR)
            THEN <<Label_accelerator>> ELSE <<>>)
        \o (IF HasBit(mask, CL_DEVICE_TYPE_DEFAULT) THEN <<Label_default>> ELSE <<>>)
        \o (IF HasBit(mask, CL_DEVICE_TYPE_CUSTOM) THEN <<Label_custom>> ELSE <<>>))

TextValue(txt) == [class |-> "char", dims |-> <<1, Len(txt)>>, val |-> txt]

(* the value a (device, requested name) pair resolves to *)
ExpectedCell(dev, name) ==
    CASE name = "CL_DEVICE_NAME" -> TextValue(dev.name)
      [] name = "CL_DEVICE_TYPE" -> TextValue(ClassLabels(dev.type))
      [] name = "CL_DEVICE_MAX_WORK_ITEM_SIZES" ->
            [class |-> "uint64", dims |-> <<1, Len(dev.sizes)>>, val |-> dev.sizes]
      [] name = "CL_DEVICE_MAX_COMPUTE_UNITS" ->
            [class |-> "uint32", dims |-> <<1, 1>>, val |-> <<dev.units>>]
      [] OTHER -> EmptyDouble

Slots == DOMAIN writes

Written(slot) == slot \in Slots /\ writes[slot] >= 1

QueriedCells == {calls[k].cell : k \in {n \in 1 .. Len(calls) : calls[n].op = "getInfo"}}

AbortedInLoop == pc = "error" /\ err \in {BackendError, OutOfRange}

InputShapeError == pc = "error" /\ err \in {NonCellInput, NonCharInput}

---------------------------------------------------------------------------
(* C1: a call that completes returns a grid with exactly P rows and D     *)
(* columns (P requested names, D devices of the directory), whatever       *)
(* number of the names is unrecognized, also for P = 0 and for D = 0.      *)
C1_GridDimensions ==
    pc = "done" =>
        /\ plhs.rows = P
        /\ plhs.cols = D
        /\ DOMAIN plhs.cells = 0 .. (P * D - 1)

(* one requested name, no device: the call completes with a 1-by-0 grid *)
C1_Witness ==
    /\ pc = "done"
    /\ P = 1
    /\ D = 0
    /\ plhs.rows = 1
    /\ plhs.cols = 0

(* C2: when a call completes, slot j + i*P holds the value of the j-th     *)
(* requested name on the i-th device of the directory, for every j < P and *)
(* i < D, and every slot has been written exactly once.                    *)
C2_Placement ==
    pc = "done" =>
        \A jj \in 0 .. (P - 1) : \A ii \in 0 .. (D - 1) :
            /\ writes[jj + ii * P] = 1
            /\ CellEq(plhs.cells[jj + ii * P],
                      ExpectedCell(directory[ii + 1], NameAt(jj)))

(* two different names on two different devices, all four cells queried *)
C2_Witness ==
    /\ pc = "done"
    /\ P = 2
    /\ D = 2
    /\ NameAt(0) = "CL_DEVICE_MAX_WORK_ITEM_SIZES"
    /\ NameAt(1) = "CL_DEVICE_NAME"
    /\ directory[1] # directory[2]
    /\ Cardinality(QueriedCells) = 4

(* C3: the device-class decoding is total over the 32 combinations of the  *)
(* five category bits: it never throws, and the cell of CL_DEVICE_TYPE is  *)
(* the text of the labels of exactly the set bits, in the order cpu, gpu,  *)
(* accelerator, default, custom, joined by " | " ("" for no bit).          *)
C3_DecoderTotal ==
    /\ err # OutOfRange
    /\ \A s \in Slots :
          (Written(s) /\ NameAt(RowOf(s)) = "CL_DEVICE_TYPE") =>
              CellEq(cell_array_ptr.cells[s],
                     TextValue(ClassLabels(directory[ColOf(s) + 1].type)))

(* C4: a requested name that matches no table entry never causes a backend *)
(* query and never ends the call; its cell is the empty 0-by-0 value on    *)
(* every device, at any position of the request list; and the cells of the *)
(* recognized names hold the values their (device, name) pair resolves to, *)
(* whatever else is requested.                                             *)
C4_UnrecognizedEmpty ==
    /\ \A s \in QueriedCells : Recognized(NameAt(RowOf(s)))
    /\ AbortedInLoop => Recognized(NameAt(j))
    /\ \A s \in Slots :
          (Written(s) /\ ~Recognized(NameAt(RowOf(s)))) =>
              cell_array_ptr.cells[s] = EmptyDouble
    /\ pc = "done" =>
          \A s \in DOMAIN plhs.cells :
              IF Recognized(NameAt(RowOf(s)))
              THEN CellEq(plhs.cells[s],
                          ExpectedCell(directory[ColOf(s) + 1], NameAt(RowOf(s))))
              ELSE plhs.cells[s] = EmptyDouble

(* an unrecognized name directly after a recognized, queried one *)
C4_Witness ==
    /\ pc = "done"
    /\ P = 2
    /\ D = 2
    /\ NameAt(0) = "CL_DEVICE_NAME"
    /\ NameAt(1) = "cl_device_name"
    /\ plhs.cells[1] = EmptyDouble
    /\ plhs.cells[3] = EmptyDouble
    /\ QueriedCells = {0, 2}

(* C5: when an input-shape error is raised, no call to the backend has     *)
(* been made before it: neither the enumeration of getOclDevices nor a     *)
(* getInfo query.                                                          *)
C5_ValidationBeforeBackend ==
    InputShapeError => calls = <<>>

(* C6: an absent or non-cell argument ends the call with NonCellInput; a   *)
(* cell array with a non-text element at any position ends it with         *)
(* NonCharInput; in both cases no getInfo query has been made and no grid  *)
(* is produced.                                                            *)
C6_InputShapeErrors ==
    /\ (prhs.nrhs = 0 \/ prhs.class # "cell") =>
          /\ pc \in {"enumerate", "check_cell", "error"}
          /\ pc = "error" => err = NonCellInput
    /\ (prhs.class = "cell" /\ \E k \in 1 .. P : prhs.elems[k].class # "char") =>
          /\ pc \in {"enumerate", "check_cell", "check_chars", "error"}
          /\ pc = "error" => err = NonCharInput
    /\ InputShapeError =>
          /\ QueriedCells = {}
          /\ plhs = NoGrid
          /\ cell_array_ptr = NoGrid

(* the non-text element comes first and a text element last *)
C6_Witness ==
    /\ pc = "error"
    /\ err = NonCharInput
    /\ P = 2
    /\ prhs.elems[1].class # "char"
    /\ prhs.elems[2].class = "char"
    /\ D = 2

(* C7: a failed backend query ends the call with an error and nothing is   *)
(* returned; the output is assigned only after every cell has been         *)
(* populated, each exactly once; no cell is queried twice.                 *)
C7_NoPartialGrid ==
    /\ pc = "error" => plhs = NoGrid
    /\ plhs # NoGrid =>
          /\ pc = "done"
          /\ \A s \in DOMAIN plhs.cells :
                plhs.cells[s].class # "null" /\ writes[s] = 1
    /\ \A k \in 1 .. Len(calls) :
          ~calls[k].ok => (k = Len(calls) /\ pc = "error" /\ err = BackendError)
    /\ \A k1, k2 \in 1 .. Len(calls) :
          (k1 # k2 /\ calls[k1].op = "getInfo" /\ calls[k2].op = "getInfo") =>
              calls[k1].cell # calls[k2].cell

(* the query of the last of four cells fails, three cells are populated *)
C7_Witness ==
    /\ pc = "error"
    /\ err = BackendError
    /\ P = 2
    /\ D = 2
    /\ \A s \in 0 .. 2 : Written(s)
    /\ ~Written(3)
    /\ ~calls[Len(calls)].ok
    /\ plhs = NoGrid

(* C8: a name requested at two positions j1 # j2 yields, for every device, *)
(* two separately written cells of identical kind and value, both queried  *)
(* or neither; the number of rows is not reduced.                          *)
C8_DuplicateRows ==
    pc = "done" =>
        /\ plhs.rows = P
        /\ \A j1, j2 \in 0 .. (P - 1) :
              (j1 # j2 /\ NameAt(j1) = NameAt(j2)) =>
                  \A ii \in 0 .. (D - 1) :
                      /\ CellEq(plhs.cells[j1 + ii * P], plhs.cells[j2 + ii * P])
                      /\ writes[j1 + ii * P] = 1
                      /\ writes[j2 + ii * P] = 1
                      /\ (j1 + ii * P \in QueriedCells) <=> (j2 + ii * P \in QueriedCells)

(* the same queried name twice, on two different devices *)
C8_Witness ==
    /\ pc = "done"
    /\ P = 2
    /\ D = 2
    /\ NameAt(0) = "CL_DEVICE_NAME"
    /\ NameAt(1) = "CL_DEVICE_NAME"
    /\ directory[1].name # directory[2].name
    /\ QueriedCells = {0, 1, 2, 3}

(* C9: CL_DEVICE_PLATFORM is no error: its cell is the empty 0-by-0 value  *)
(* on every device, no backend query is made for it, and it never ends the *)
(* call.                                                                   *)
C9_PlatformEmpty ==
    /\ \A s \in QueriedCells : NameAt(RowOf(s)) # "CL_DEVICE_PLATFORM"
    /\ AbortedInLoop => NameAt(j) # "CL_DEVICE_PLATFORM"
    /\ \A s \in Slots :
          (Written(s) /\ NameAt(RowOf(s)) = "CL_DEVICE_PLATFORM") =>
              cell_array_ptr.cells[s] = EmptyDouble
    /\ pc = "done" =>
          \A s \in DOMAIN plhs.cells :
              NameAt(RowOf(s)) = "CL_DEVICE_PLATFORM" =>
                  plhs.cells[s] = ExpectedCell(directory[ColOf(s) + 1], "cl_device_name")

(* CL_DEVICE_PLATFORM alone, on two devices, and the call completes *)
C9_Witness ==
    /\ pc = "done"
    /\ P = 1
    /\ D = 2
    /\ NameAt(0) = "CL_DEVICE_PLATFORM"
    /\ plhs.cells[0] = EmptyDouble
    /\ plhs.cells[1] = EmptyDouble
    /\ Len(calls) = 1

(* C10: the cell of CL_DEVICE_MAX_WORK_ITEM_SIZES on device i is a 1-by-N  *)
(* vector, N the length the backend reported for device i, whose k-th      *)
(* element is the k-th element reported.                                   *)
C10_ArrayLength ==
    \A s \in Slots :
        (Written(s) /\ NameAt(RowOf(s)) = "CL_DEVICE_MAX_WORK_ITEM_SIZES") =>
            LET reported == directory[ColOf(s) + 1].sizes
                cell     == cell_array_ptr.cells[s]
            IN  /\ cell.class = "uint64"
                /\ cell.dims = <<1, Len(reported)>>
                /\ Len(cell.val) = Len(reported)
                /\ \A k \in 1 .. Len(reported) : cell.val[k] = reported[k]

(* two devices reporting different lengths get cells of different lengths *)
(* in the same row                                                         *)
C10_Witness ==
    /\ pc = "done"
    /\ P = 1
    /\ D = 2
    /\ NameAt(0) = "CL_DEVICE_MAX_WORK_ITEM_SIZES"
    /\ Len(directory[1].sizes) # Len(directory[2].sizes)
    /\ plhs.cells[0].dims # plhs.cells[1].dims
    /\ plhs.cells[0].dims = <<1, Len(directory[1].sizes)>>
    /\ plhs.cells[1].dims = <<1, Len(directory[2].sizes)>>

=============================================================================
